---- MODULE Spec2Model ----
(***************************************************************************)
(* Model of source/blender/blenlib/intern/stack.c: BLI_StackImpl, a stack  *)
(* of fixed-size elements kept in a linked list of fixed-capacity chunks,  *)
(* with a free list of vacated chunks.                                     *)
(*                                                                         *)
(* The heap is two sequences indexed by chunk address (1, 2, ... in order  *)
(* of allocation; NULL is 0): next[c] is StackChunk::next and data[c] is   *)
(* StackChunk::data, a sequence of bytes.  size_t is an unsigned integer   *)
(* of SizeBits bits.                                                       *)
(***************************************************************************)
EXTENDS Integers, Sequences, FiniteSets, TLC

\* ------------------------------------------------------------------ bounds

\* Largest elem_size and chunk_size handed to the constructor.
MaxElemSize == 1
MaxChunkSize == 2
\* Pushes per run.
MaxPushes == 4
\* Width of size_t in the model.
SizeBits == 8

\* ------------------------------------------------------------------ size_t

NULL == 0

Pow2(n) == 2 ^ n

SIZE_MAX == Pow2(SizeBits) - 1

\* Unsigned arithmetic of width SizeBits.
Wrap(x) == x % (SIZE_MAX + 1)

\* A byte: the code only copies bytes, two values tell them apart.
Byte == {0, 1}

\* The byte strings of length n: what a caller's buffer of elem_size bytes holds.
Values(n) == [1 .. n -> Byte]

\* What an operation returned: nothing (void), a pointer to a slot, the bytes pop
\* copied to dst, or a fault (the operation did not return).
RetRecord(kind, chunk, off, bytes) ==
    [kind |-> kind, chunk |-> chunk, off |-> off, bytes |-> bytes]

NoRet == RetRecord("none", 0, 0, <<>>)

Fault == RetRecord("fault", 0, 0, <<>>)

RetPtr(p) == RetRecord("ptr", p.chunk, p.off, <<>>)

RetBytes(v) == RetRecord("bytes", 0, 0, v)

\* ------------------------------------------------------------------ state

VARIABLES
    stack,    \* the BLI_StackImpl object and the chunks it allocated
    status,   \* "live", "undefined" (after undefined behaviour), "destroyed"
    deleted,  \* the chunks deleted by the destructor, in order
    ret,      \* what the last operation returned (pop: the bytes copied to dst)
    hist      \* history variables: what the caller did so far

vars == <<stack, status, deleted, ret, hist>>

\* std::vector<char> data(chunk_size): chunk_size value-initialised bytes.
StackChunk(chunk_size) == [i \in 1 .. chunk_size |-> 0]

\* The constructor: no argument is checked.
BLI_StackImpl(elem_size, chunk_size) ==
    [chunk_curr |-> NULL,
     chunk_free |-> NULL,
     chunk_index |-> Wrap(chunk_size + SIZE_MAX),
     chunk_elem_max |-> chunk_size,
     elem_size |-> elem_size,
     elem_num |-> 0,
     next |-> <<>>,
     data |-> <<>>]

\* Chunks ever allocated with new.
Allocated(s) == Len(s.next)

\* ------------------------------------------------------------------ methods

\* allocate_new_chunk, as a bug would have it: never recycles a free chunk.
allocate_new_chunk_always_new(s) ==
    [s EXCEPT !.chunk_curr = Len(s.next) + 1,
              !.next = Append(s.next, NULL),
              !.data = Append(s.data, StackChunk(Wrap(s.elem_size * s.chunk_elem_max)))]

allocate_new_chunk(s) ==
    LET t == IF s.chunk_free # NULL
             THEN [s EXCEPT !.chunk_curr = s.chunk_free,
                            !.chunk_free = s.next[s.chunk_free]]
             ELSE [s EXCEPT !.chunk_curr = Len(s.next) + 1,
                            !.next = Append(s.next, NULL),
                            !.data = Append(s.data,
                                StackChunk(Wrap(s.elem_size * s.chunk_elem_max)))]
    IN  [t EXCEPT !.next[t.chunk_curr] = NULL]

\* The pointer get_last_elem returns: a chunk and a byte offset into its data.
get_last_elem(s) ==
    [chunk |-> s.chunk_curr, off |-> Wrap(s.elem_size * s.chunk_index)]

\* get_last_elem reads chunk_curr->data: undefined when chunk_curr is null.
get_last_elem_defined(s) == s.chunk_curr # NULL

\* n bytes at p lie inside the chunk's buffer.
InBuffer(s, p, n) ==
    /\ p.chunk # NULL
    /\ p.off + n <= Len(s.data[p.chunk])

\* The n bytes at p.
Load(s, p, n) == [i \in 1 .. n |-> s.data[p.chunk][p.off + i]]

\* memcpy(p, src, n).
Store(s, p, src, n) ==
    [s EXCEPT !.data[p.chunk] =
        [i \in 1 .. Len(@) |-> IF i > p.off /\ i <= p.off + n THEN src[i - p.off] ELSE @[i]]]

\* push_r, as a bug would have it: a chunk is taken for every push.
push_r_always_allocates(s) ==
    LET t == [allocate_new_chunk(s) EXCEPT !.chunk_index = 0]
    IN  [t EXCEPT !.elem_num = Wrap(@ + 1)]

\* push_r up to its return statement.
push_r(s) ==
    LET i == Wrap(s.chunk_index + 1)
        t == IF i = s.chunk_elem_max
             THEN [allocate_new_chunk(s) EXCEPT !.chunk_index = 0]
             ELSE [s EXCEPT !.chunk_index = i]
    IN  [t EXCEPT !.elem_num = Wrap(@ + 1)]

\* discard dereferences chunk_curr when the index wraps.
discard_defined(s) ==
    Wrap(s.chunk_index + SIZE_MAX) = SIZE_MAX => s.chunk_curr # NULL

\* discard, as a bug would have it: the wrapped index is not reset.
discard_keeps_wrapped(s) ==
    LET i == Wrap(s.chunk_index + SIZE_MAX)
        t == IF i = SIZE_MAX
             THEN [s EXCEPT !.chunk_curr = s.next[s.chunk_curr],
                            !.next[s.chunk_curr] = s.chunk_free,
                            !.chunk_free = s.chunk_curr,
                            !.chunk_index = i]
             ELSE [s EXCEPT !.chunk_index = i]
    IN  [t EXCEPT !.elem_num = Wrap(@ + SIZE_MAX)]

\* discard, as a bug would have it: the vacated chunk is not put on the free list.
discard_drops_chunk(s) ==
    LET i == Wrap(s.chunk_index + SIZE_MAX)
        t == IF i = SIZE_MAX
             THEN [s EXCEPT !.chunk_curr = s.next[s.chunk_curr],
                            !.chunk_index = Wrap(s.chunk_elem_max + SIZE_MAX)]
             ELSE [s EXCEPT !.chunk_index = i]
    IN  [t EXCEPT !.elem_num = Wrap(@ + SIZE_MAX)]

discard(s) ==
    LET i == Wrap(s.chunk_index + SIZE_MAX)
        t == IF i = SIZE_MAX
             THEN [s EXCEPT !.chunk_curr = s.next[s.chunk_curr],
                            !.next[s.chunk_curr] = s.chunk_free,
                            !.chunk_free = s.chunk_curr,
                            !.chunk_index = Wrap(s.chunk_elem_max + SIZE_MAX)]
             ELSE [s EXCEPT !.chunk_index = i]
    IN  [t EXCEPT !.elem_num = Wrap(@ + SIZE_MAX)]

\* The state discard leaves when it stops at the null chunk_curr->next.
discard_stopped(s) == [s EXCEPT !.chunk_index = Wrap(s.chunk_index + SIZE_MAX)]

\* The last chunk of the list that starts at c (clear's while loop).
RECURSIVE LastOf(_, _, _)
LastOf(s, c, fuel) ==
    IF s.next[c] = NULL \/ fuel = 0 THEN c ELSE LastOf(s, s.next[c], fuel - 1)

\* clear, as a bug would have it: chunk_curr is not reset.
clear_keeps_curr(s) ==
    LET t == IF s.chunk_free # NULL
             THEN IF s.chunk_curr # NULL
                  THEN [s EXCEPT !.next[LastOf(s, s.chunk_free, Len(s.next))] = s.chunk_curr]
                  ELSE s
             ELSE [s EXCEPT !.chunk_free = s.chunk_curr]
    IN  [t EXCEPT !.chunk_index = Wrap(s.chunk_elem_max + SIZE_MAX), !.elem_num = 0]

\* clear, as a bug would have it: the index is not reset.
clear_keeps_index(s) ==
    LET t == IF s.chunk_free # NULL
             THEN IF s.chunk_curr # NULL
                  THEN [s EXCEPT !.next[LastOf(s, s.chunk_free, Len(s.next))] = s.chunk_curr]
                  ELSE s
             ELSE [s EXCEPT !.chunk_free = s.chunk_curr]
    IN  [t EXCEPT !.chunk_curr = NULL, !.elem_num = 0]

clear(s) ==
    LET t == IF s.chunk_free # NULL
             THEN IF s.chunk_curr # NULL
                  THEN [s EXCEPT !.next[LastOf(s, s.chunk_free, Len(s.next))] = s.chunk_curr]
                  ELSE s
             ELSE [s EXCEPT !.chunk_free = s.chunk_curr]
    IN  [t EXCEPT !.chunk_index = Wrap(s.chunk_elem_max + SIZE_MAX),
                  !.chunk_curr = NULL,
                  !.elem_num = 0]

count(s) == s.elem_num

is_empty(s) == s.elem_num = 0

\* The chunks clear_chunks(c) deletes, in order.
RECURSIVE clear_chunks(_, _, _)
clear_chunks(s, c, fuel) ==
    IF c = NULL \/ fuel = 0 THEN <<>> ELSE <<c>> \o clear_chunks(s, s.next[c], fuel - 1)

\* The chunks of the list that starts at c, head first.
ListFrom(s, c) == clear_chunks(s, c, Len(s.next))

ActiveList(s) == ListFrom(s, s.chunk_curr)

FreeList(s) == ListFrom(s, s.chunk_free)

\* push(src) returns: get_last_elem and memcpy stay inside a chunk.
push_defined(s) ==
    LET t == push_r(s)
    IN  get_last_elem_defined(t) /\ InBuffer(t, get_last_elem(t), t.elem_size)

\* push(src).
push(s, src) ==
    LET t == push_r(s)
    IN  Store(t, get_last_elem(t), src, t.elem_size)

\* push_r is to take a chunk: the incremented index reaches chunk_elem_max.
NeedsChunk(s) == Wrap(s.chunk_index + 1) = s.chunk_elem_max

\* ------------------------------------------------------------------ history

\* shadow: the values pushed and not yet removed, oldest first.
\* nPush, nRemove: calls of push or push_r, and of pop or discard, so far.
\* cleared, discarded: clear, discard was called.
\* fillOnly: so far the caller only filled (push, push_r, peek) and cleared, the
\*   first fill was not empty and no later fill exceeded it.
\* firstFill: count() at the first clear (0 before it).
\* afterClear: the last call that changed the stack was clear.
\* clearMoved, clearFree: the active list and the free list the last clear found.
\* script: how far the caller is in the sequence
\*   push (more than chunk_elem_max times), pop (down to chunk_elem_max elements),
\*   clear, push:  "fill", "drain", "cleared", "refilled"; "off" when it left it.
HistInit ==
    [shadow |-> <<>>, nPush |-> 0, nRemove |-> 0, cleared |-> FALSE,
     discarded |-> FALSE, fillOnly |-> TRUE, firstFill |-> 0, afterClear |-> FALSE,
     clearMoved |-> <<>>, clearFree |-> <<>>, script |-> "fill"]

HistPush(v) ==
    [hist EXCEPT !.shadow = Append(@, v),
                 !.nPush = @ + 1,
                 !.fillOnly = @ /\ (~hist.cleared \/ Len(hist.shadow) + 1 <= hist.firstFill),
                 !.afterClear = FALSE,
                 !.script = CASE @ = "fill" -> "fill"
                              [] @ = "cleared" -> "refilled"
                              [] OTHER -> "off"]

HistRemove(op) ==
    [hist EXCEPT !.shadow = SubSeq(@, 1, Len(@) - 1),
                 !.nRemove = @ + 1,
                 !.discarded = @ \/ op = "discard",
                 !.fillOnly = FALSE,
                 !.afterClear = FALSE,
                 !.script = IF /\ op = "pop"
                               /\ @ \in {"fill", "drain"}
                               /\ Len(hist.shadow) > stack.chunk_elem_max
                            THEN "drain" ELSE "off"]

HistClear ==
    [hist EXCEPT !.shadow = <<>>,
                 !.cleared = TRUE,
                 !.fillOnly = @ /\ (hist.cleared \/ Len(hist.shadow) > 0),
                 !.firstFill = IF hist.cleared THEN @ ELSE Len(hist.shadow),
                 !.afterClear = TRUE,
                 !.clearMoved = ActiveList(stack),
                 !.clearFree = FreeList(stack),
                 !.script = IF @ = "drain" /\ Len(hist.shadow) = stack.chunk_elem_max
                            THEN "cleared" ELSE "off"]

\* The top of the reference stack.
Top == hist.shadow[Len(hist.shadow)]

\* The caller keeps the precondition of pop, peek and discard.
NonEmpty == Len(hist.shadow) > 0

Live == status = "live"

\* ------------------------------------------------------------------ actions

Init ==
    /\ \E elem_size \in 0 .. MaxElemSize, chunk_size \in 0 .. MaxChunkSize :
           stack = BLI_StackImpl(elem_size, chunk_size)
    /\ status = "live"
    /\ deleted = <<>>
    /\ ret = NoRet
    /\ hist = HistInit

\* void *BLI_stack_push_r(stack): the slot is returned as it is.
PushR ==
    /\ Live
    /\ hist.nPush < MaxPushes
    /\ deleted' = deleted
    /\ LET t == push_r(stack)
           p == get_last_elem(t)
       IN  /\ stack' = t
           /\ IF get_last_elem_defined(t) /\ InBuffer(t, p, t.elem_size)
              THEN /\ status' = "live"
                   /\ ret' = RetPtr(p)
                   /\ hist' = HistPush(Load(t, p, t.elem_size))
              ELSE /\ status' = "undefined"
                   /\ ret' = Fault
                   /\ hist' = HistPush(<<>>)

\* void BLI_stack_push(stack, src).
Push ==
    /\ Live
    /\ hist.nPush < MaxPushes
    /\ deleted' = deleted
    /\ ret' = NoRet
    /\ \E src \in Values(stack.elem_size) :
           LET t == push_r(stack)
               p == get_last_elem(t)
           IN  /\ hist' = HistPush(src)
               /\ IF get_last_elem_defined(t) /\ InBuffer(t, p, t.elem_size)
                  THEN /\ status' = "live"
                       /\ stack' = Store(t, p, src, t.elem_size)
                  ELSE /\ status' = "undefined"
                       /\ stack' = t

\* void BLI_stack_pop(stack, dst).
Pop ==
    /\ Live
    /\ NonEmpty
    /\ deleted' = deleted
    /\ hist' = HistRemove("pop")
    /\ LET p == get_last_elem(stack)
       IN  IF get_last_elem_defined(stack) /\ InBuffer(stack, p, stack.elem_size)
           THEN /\ ret' = RetBytes(Load(stack, p, stack.elem_size))
                /\ IF discard_defined(stack)
                   THEN status' = "live" /\ stack' = discard(stack)
                   ELSE status' = "undefined" /\ stack' = discard_stopped(stack)
           ELSE /\ status' = "undefined"
                /\ stack' = stack
                /\ ret' \in {RetBytes(v) : v \in Values(stack.elem_size)} \cup {Fault}

\* void *BLI_stack_peek(stack).
Peek ==
    /\ Live
    /\ NonEmpty
    /\ deleted' = deleted
    /\ stack' = stack
    /\ hist' = hist
    /\ IF get_last_elem_defined(stack)
       THEN status' = "live" /\ ret' = RetPtr(get_last_elem(stack))
       ELSE status' = "undefined" /\ ret' = Fault

\* void BLI_stack_discard(stack).
Discard ==
    /\ Live
    /\ NonEmpty
    /\ deleted' = deleted
    /\ ret' = NoRet
    /\ hist' = HistRemove("discard")
    /\ IF discard_defined(stack)
       THEN status' = "live" /\ stack' = discard(stack)
       ELSE status' = "undefined" /\ stack' = discard_stopped(stack)

\* void BLI_stack_clear(stack).
Clear ==
    /\ Live
    /\ deleted' = deleted
    /\ ret' = NoRet
    /\ status' = "live"
    /\ hist' = HistClear
    /\ stack' = clear(stack)

\* void BLI_stack_free(stack): the destructor.
Free ==
    /\ Live
    /\ deleted' = ActiveList(stack) \o FreeList(stack)
    /\ status' = "destroyed"
    /\ UNCHANGED <<stack, ret, hist>>

Next == PushR \/ Push \/ Pop \/ Peek \/ Discard \/ Clear \/ Free

Spec == Init /\ [][Next]_vars

\* ------------------------------------------------------------------ claims

\* The chunks in a list.
Range(q) == {q[i] : i \in 1 .. Len(q)}

\* The stack was built with elem_size >= 1 and chunk_capacity >= 1.
ValidParams == stack.elem_size >= 1 /\ stack.chunk_elem_max >= 1

\* Only push, push_r, pop and peek were called so far.
PushPopOnly == ~hist.cleared /\ ~hist.discarded

AnyPush == Push \/ PushR

\* C1: in every sequence of pushes and pops on a stack with valid parameters, a
\* pop called while count() > 0 completes and returns the value of the most
\* recently pushed element not yet popped, also across chunk boundaries.
C1_PopReturnsTop ==
    [][(ValidParams /\ PushPopOnly /\ Pop) => (status' = "live" /\ ret' = RetBytes(Top))]_vars

\* C2: without a clear, after N pushes and M pops or discards (M <= N at every
\* prefix) count() is N - M, and is_empty() is true exactly when count() is 0.
C2_CountIsPushesMinusPops ==
    (ValidParams /\ ~hist.cleared /\ status # "destroyed")
        => /\ status = "live"
           /\ count(stack) = hist.nPush - hist.nRemove
           /\ is_empty(stack) <=> (count(stack) = 0)

\* C3: whenever count() > 0, peek completes, returns the slot holding the top
\* element (the value the next pop would return) and changes nothing.
C3_PeekReturnsTopSlot ==
    [][(ValidParams /\ Peek)
         => /\ status' = "live"
            /\ ret'.kind = "ptr"
            /\ InBuffer(stack, ret', stack.elem_size)
            /\ Load(stack, ret', stack.elem_size) = Top
            /\ stack' = stack]_vars

\* C4: construction with elem_size 0 or chunk_capacity 0 fails with an
\* invalid-argument error and produces no stack.
C4_ZeroSizeRejected ==
    (stack.elem_size = 0 \/ stack.chunk_elem_max = 0) => status = "invalid_argument"

\* C5: once the stack was filled with P >= 1 pushes and cleared, refills of at
\* most P pushes and clears allocate no chunk.
C5_RefillAllocatesNothing ==
    [][(ValidParams /\ hist.cleared /\ hist.fillOnly /\ hist'.fillOnly)
         => Allocated(stack') = Allocated(stack)]_vars

\* C6: destruction deletes every chunk ever allocated, each exactly once.
C6_DestroyReleasesAll ==
    (ValidParams /\ status = "destroyed")
        => /\ Range(deleted) = 1 .. Allocated(stack)
           /\ Len(deleted) = Allocated(stack)

\* C7: immediately after any clear() the active list is empty and the free list
\* holds every chunk ever allocated exactly once.
C7_ClearKeepsEveryChunk ==
    [][(ValidParams /\ Clear)
         => /\ ActiveList(stack') = <<>>
            /\ Range(FreeList(stack')) = 1 .. Allocated(stack')
            /\ Len(FreeList(stack')) = Allocated(stack')]_vars

\* A new stack on which exactly chunk_capacity elements were pushed and as many
\* removed, and nothing else was done.
C8_Pre ==
    /\ ValidParams
    /\ ~hist.cleared
    /\ hist.nPush = stack.chunk_elem_max
    /\ hist.nRemove = stack.chunk_elem_max

\* C8: pushing exactly K = chunk_capacity elements on a new stack and removing
\* all K leaves the empty state (count 0, current null, chunk_index K - 1) with
\* the single chunk on the free list, and the next push reuses that chunk and
\* allocates nothing.
C8_FullChunkRoundTrip ==
    [][C8_Pre
         => /\ status # "undefined"
            /\ count(stack) = 0
            /\ stack.chunk_curr = NULL
            /\ stack.chunk_index = stack.chunk_elem_max - 1
            /\ FreeList(stack) = <<1>>
            /\ Allocated(stack) = 1
            /\ AnyPush => /\ status' = "live"
                          /\ stack'.chunk_curr = 1
                          /\ stack'.chunk_free = NULL
                          /\ Allocated(stack') = 1]_vars

\* Reached by push, push, discard, discard, push on a stack with chunk_capacity 2:
\* both slots of chunk 1 were written, and the last push took chunk 1 again.
C8_Witness ==
    /\ ValidParams
    /\ status = "live"
    /\ stack.chunk_elem_max = 2
    /\ ~hist.cleared
    /\ hist.discarded
    /\ hist.nPush = 3
    /\ hist.nRemove = 2
    /\ stack.chunk_curr = 1
    /\ stack.data[1] = <<1, 1>>

\* C9: clear() leads to the empty state from every state: count() = 0,
\* is_empty(), current null, chunk_index = chunk_capacity - 1; on an empty stack
\* it leaves the free list as it was.
C9_ClearEmpties ==
    [][(ValidParams /\ Clear)
         => /\ status' = "live"
            /\ count(stack') = 0
            /\ is_empty(stack')
            /\ stack'.chunk_curr = NULL
            /\ stack'.chunk_index = stack.chunk_elem_max - 1
            /\ is_empty(stack) => FreeList(stack') = FreeList(stack)]_vars

\* Reached by push, discard, clear: clear on an empty stack whose free list holds
\* chunk 1.
C9_Witness ==
    /\ ValidParams
    /\ status = "live"
    /\ hist.afterClear
    /\ hist.nPush = 1
    /\ hist.nRemove = 1
    /\ hist.clearFree = <<1>>
    /\ FreeList(stack) = <<1>>
    /\ count(stack) = 0

\* The first push after a clear.
FirstPushAfterClear == hist.afterClear /\ AnyPush

\* The general part of C10: after a clear that moved a non-empty active list, the
\* first push takes a chunk that clear moved, allocates nothing, and does not
\* take a chunk that was on the free list before the clear.
C10_General ==
    (ValidParams /\ FirstPushAfterClear /\ hist.clearMoved # <<>>)
        => /\ status' = "live"
           /\ stack'.chunk_curr \in Range(hist.clearMoved)
           /\ stack'.chunk_curr \notin Range(hist.clearFree)
           /\ Allocated(stack') = Allocated(stack)

\* C10 as stated: the general part, and in the scenario (push past a chunk
\* boundary, pop back to chunk_capacity elements, clear, push) the pushed value
\* lives in the chunk most recently freed by that clear.
C10_Original ==
    [][/\ C10_General
       /\ (ValidParams /\ FirstPushAfterClear /\ hist.script = "cleared")
            => /\ status' = "live"
               /\ stack'.chunk_curr \in Range(hist.clearMoved)]_vars

\* C10 as amended: the general part, and in the scenario the pushed value lives
\* in a chunk the pops had freed, which was on the free list before the clear;
\* nothing is allocated and count() becomes 1.
C10_Amended ==
    [][/\ C10_General
       /\ (ValidParams /\ FirstPushAfterClear /\ hist.script = "cleared")
            => /\ status' = "live"
               /\ stack'.chunk_curr \in Range(hist.clearFree)
               /\ stack'.chunk_curr \notin Range(hist.clearMoved)
               /\ Allocated(stack') = Allocated(stack)
               /\ count(stack') = 1]_vars

\* Reached by push, push, push, pop, clear, push on a stack with chunk_capacity 2.
C10_Witness ==
    /\ ValidParams
    /\ status = "live"
    /\ hist.script = "refilled"
    /\ stack.chunk_elem_max = 2
    /\ count(stack) = 1
    /\ stack.chunk_curr \in Range(hist.clearFree)

\* C11: from any reachable state, push(E); discard(); push(F) completes and
\* leaves a stack whose peek() returns exactly F and whose count is one more
\* than before, also when the push of E crosses a chunk boundary.
C11_RoundTrip ==
    (ValidParams /\ Live)
        => \A E \in Values(stack.elem_size), F \in Values(stack.elem_size) :
              /\ push_defined(stack)
              /\ LET s1 == push(stack, E)
                 IN  /\ discard_defined(s1)
                     /\ LET s2 == discard(s1)
                        IN  /\ push_defined(s2)
                            /\ LET s3 == push(s2, F)
                               IN  /\ get_last_elem_defined(s3)
                                   /\ Load(s3, get_last_elem(s3), s3.elem_size) = F
                                   /\ count(s3) = count(stack) + 1

\* C12: a push that finds the head chunk full links the chunk it takes as the
\* new head of the active list with the previous head as its successor: the
\* chunks that were in the active list stay in it, in the same order, and
\* chunk_index becomes 0.
C12_NewHeadKeepsList ==
    [][(ValidParams /\ AnyPush /\ NeedsChunk(stack))
         => /\ status' = "live"
            /\ ActiveList(stack') = <<stack'.chunk_curr>> \o ActiveList(stack)
            /\ stack'.chunk_index = 0]_vars

\* C13: every chunk ever allocated is in exactly one of the two lists, once.
C13_ChunkInExactlyOneList ==
    (ValidParams /\ status # "destroyed")
        => /\ Range(ActiveList(stack)) \cap Range(FreeList(stack)) = {}
           /\ Cardinality(Range(ActiveList(stack))) = Len(ActiveList(stack))
           /\ Cardinality(Range(FreeList(stack))) = Len(FreeList(stack))
           /\ Range(ActiveList(stack)) \cup Range(FreeList(stack)) = 1 .. Allocated(stack)

\* C14: when current is not null, elem_count is the number of elements of the
\* active chunks with every chunk but the head full.
C14_CountFromChunks ==
    (ValidParams /\ Live /\ stack.chunk_curr # NULL)
        => stack.elem_num =
              (Len(ActiveList(stack)) - 1) * stack.chunk_elem_max + stack.chunk_index + 1

\* C15: when discard (alone or as the last step of pop) vacates the head chunk,
\* the chunk leaves the active list and becomes the head of the free list,
\* current becomes the next active chunk (null only if no element is left),
\* chunk_index becomes chunk_capacity - 1 and elem_count decreases by 1.
C15_VacatedChunkIsFreed ==
    [][(ValidParams /\ (Discard \/ Pop) /\ stack.chunk_index = 0)
         => /\ status' = "live"
            /\ ActiveList(stack) = <<stack.chunk_curr>> \o ActiveList(stack')
            /\ FreeList(stack') = <<stack.chunk_curr>> \o FreeList(stack)
            /\ stack'.chunk_index = stack.chunk_elem_max - 1
            /\ stack'.elem_num = stack.elem_num - 1
            /\ stack'.chunk_curr = NULL => count(stack') = 0]_vars

\* C16: between operations an empty stack has no active chunk.
C16_EmptyHasNoChunk ==
    (ValidParams /\ is_empty(stack)) => stack.chunk_curr = NULL

\* Reached by push, push, discard, discard on a stack with chunk_capacity 2: the
\* last discard vacated chunk 1.
C16_Witness ==
    /\ ValidParams
    /\ status = "live"
    /\ stack.chunk_elem_max = 2
    /\ ~hist.cleared
    /\ hist.nPush = 2
    /\ hist.nRemove = 2
    /\ is_empty(stack)
    /\ FreeList(stack) = <<1>>

\* C17: a chunk is allocated only by a push that is to take a chunk while the
\* free list is empty, and the first push on a new stack does allocate one; a
\* chunk is deleted only by the destruction of the stack.
C17_AllocationAndRelease ==
    [][ValidParams
         => /\ Allocated(stack') # Allocated(stack)
                => /\ AnyPush
                   /\ NeedsChunk(stack)
                   /\ stack.chunk_free = NULL
                   /\ Allocated(stack') = Allocated(stack) + 1
            /\ (AnyPush /\ hist.nPush = 0) => Allocated(stack') = 1
            /\ deleted' # deleted => Free]_vars

\* Reached by push, discard, push, push on a stack with chunk_capacity 1: the
\* second push took chunk 1 from the free list, the third allocated chunk 2.
C17_Witness ==
    /\ ValidParams
    /\ status = "live"
    /\ hist.nPush = 3
    /\ hist.nRemove = 1
    /\ ~hist.cleared
    /\ Allocated(stack) = 2
    /\ count(stack) = 2

\* C18: after every completed operation chunk_index lies in [0, chunk_capacity).
C18_IndexInRange ==
    (ValidParams /\ status # "undefined")
        => stack.chunk_index \in 0 .. stack.chunk_elem_max - 1

\* Reached by push, push, push, discard on a stack with chunk_capacity 2: the
\* third push set the index to 0 and the discard wrapped it and reset it to 1.
C18_Witness ==
    /\ ValidParams
    /\ status = "live"
    /\ stack.chunk_elem_max = 2
    /\ ~hist.cleared
    /\ hist.nPush = 3
    /\ hist.nRemove = 1
    /\ stack.chunk_index = 1
    /\ stack.chunk_free # NULL

\* C19: while the caller keeps the precondition of pop, peek and discard,
\* count() > 0 implies that current is not null.
C19_NonEmptyHasChunk ==
    (ValidParams /\ Live /\ count(stack) > 0) => stack.chunk_curr # NULL

====
